---- MODULE Spec2Model ----
(***************************************************************************)
(* Model of the two tools of the DPDPA compliance checker.  The block tool  *)
(* (src/app_run.py): the segmenter break_into_blocks, the per-block        *)
(* evaluation loop of "Run Compliance Check" and the aggregator            *)
(* compile_summary.  The section tool (src/app.py): the per-section loop   *)
(* of "Run Compliance Check" and its score.                                *)
(*                                                                         *)
(* A Python str is a sequence of one-character strings.  A Python dict is  *)
(* a function whose domain is its set of keys.  A call that may raise      *)
(* returns a record [exc |-> <exception name or "none">, val |-> <value>]. *)
(***************************************************************************)
EXTENDS Integers, Sequences, FiniteSets, TLC

VARIABLES policy_text, blocks, pc, i, gpt_responses, all_block_results,
          errors, final_summary, checklist, exception,
          dpdpa_chapter_text, section, results, report

vars == <<policy_text, blocks, pc, i, gpt_responses, all_block_results,
          errors, final_summary, checklist, exception,
          dpdpa_chapter_text, section, results, report>>

\* the state of the section tool, which the block tool leaves alone
app_vars == <<dpdpa_chapter_text, section, results, report>>

\* the section tool before it has run
AppIdle ==
    /\ dpdpa_chapter_text = <<>>
    /\ section = 0
    /\ results = <<>>
    /\ report = [shown |-> FALSE, scored_points |-> 0, total_possible |-> 0]

\* ------------------------------------------------------------- bounds
\* lines of a document handed to the segmenter
MaxLines == 3
\* entries of one block's "Checklist Evaluation" list
MaxEntries == 1
\* block results handed to compile_summary
MaxResults == 2
\* lines of the policy text of a run of the tool
MaxRunLines == 2

\* ------------------------------------------------------------- characters
UpperChars == {"A"}
LowerChars == {"a", "b"}
SpaceChars == {" "}
DigitChars == {"1"}

\* str.strip() and the pattern's \s: whitespace
IsSpace(c) == c \in SpaceChars \/ c = "\n"
\* the pattern's [A-Z]
IsUpper(c) == c \in UpperChars
\* the pattern's [A-Za-z]
IsLetter(c) == c \in UpperChars \/ c \in LowerChars
\* the pattern's [0-9]
IsDigit(c) == c \in DigitChars

\* ------------------------------------------------------------- str helpers
RECURSIVE lstrip(_)
lstrip(s) ==
    IF s = <<>> THEN <<>>
    ELSE IF IsSpace(Head(s)) THEN lstrip(Tail(s))
    ELSE s

RECURSIVE rstrip(_)
rstrip(s) ==
    IF s = <<>> THEN <<>>
    ELSE IF IsSpace(s[Len(s)]) THEN rstrip(SubSeq(s, 1, Len(s) - 1))
    ELSE s

\* str.strip()
strip(s) == rstrip(lstrip(s))

\* ' '.join(parts)
RECURSIVE join(_)
join(parts) ==
    IF parts = <<>> THEN <<>>
    ELSE IF Len(parts) = 1 THEN parts[1]
    ELSE parts[1] \o <<" ">> \o join(Tail(parts))

\* text.splitlines(): a line ends at each line break; no empty last line
RECURSIVE splitlines_from(_, _, _)
splitlines_from(text, k, cur) ==
    IF k > Len(text) THEN (IF cur = <<>> THEN <<>> ELSE <<cur>>)
    ELSE IF text[k] = "\n" THEN <<cur>> \o splitlines_from(text, k + 1, <<>>)
    ELSE splitlines_from(text, k + 1, Append(cur, text[k]))

splitlines(text) == splitlines_from(text, 1, <<>>)

\* ------------------------------------------------------------- segmenter
\* first alternative of the pattern: [A-Z][A-Za-z\s]+ up to the end
match_capital(s) ==
    /\ Len(s) >= 2
    /\ IsUpper(s[1])
    /\ \A k \in 2..Len(s) : IsLetter(s[k]) \/ IsSpace(s[k])

\* second alternative of the pattern: [0-9]+\.\s.* up to the end
match_numbered(s) ==
    \E n \in 1..Len(s) :
        /\ \A k \in 1..n : IsDigit(s[k])
        /\ Len(s) >= n + 2
        /\ s[n + 1] = "."
        /\ IsSpace(s[n + 2])
        /\ \A k \in (n + 3)..Len(s) : s[k] # "\n"

\* re.match(r'^([A-Z][A-Za-z\s]+|[0-9]+\.\s.*)$', stripped)
re_match(stripped) == match_capital(stripped) \/ match_numbered(stripped)

\* mutant of break_loop: the block in progress at the end of the input is
\* not emitted
RECURSIVE break_loop_noflush(_, _, _, _)
break_loop_noflush(lines, k, blks, current_block) ==
    IF k > Len(lines) THEN blks
    ELSE LET stripped == strip(lines[k]) IN
         IF stripped = <<>> THEN break_loop_noflush(lines, k + 1, blks, current_block)
         ELSE IF re_match(stripped) THEN
             IF current_block # <<>>
             THEN break_loop_noflush(lines, k + 1,
                                     Append(blks, strip(join(current_block))), <<stripped>>)
             ELSE break_loop_noflush(lines, k + 1, blks, <<stripped>>)
         ELSE break_loop_noflush(lines, k + 1, blks, Append(current_block, stripped))

\* mutant of break_loop: a heading line is appended to the block in progress
\* after that block has been emitted, without starting a new one
RECURSIVE break_loop_noreset(_, _, _, _)
break_loop_noreset(lines, k, blks, current_block) ==
    IF k > Len(lines) THEN
        IF current_block # <<>> THEN Append(blks, strip(join(current_block))) ELSE blks
    ELSE LET stripped == strip(lines[k]) IN
         IF stripped = <<>> THEN break_loop_noreset(lines, k + 1, blks, current_block)
         ELSE IF re_match(stripped) THEN
             IF current_block # <<>>
             THEN break_loop_noreset(lines, k + 1,
                                     Append(blks, strip(join(current_block))),
                                     Append(current_block, stripped))
             ELSE break_loop_noreset(lines, k + 1, blks, <<stripped>>)
         ELSE break_loop_noreset(lines, k + 1, blks, Append(current_block, stripped))

\* the loop of break_into_blocks from line k on, with the blocks emitted so
\* far and the block in progress
RECURSIVE break_loop(_, _, _, _)
break_loop(lines, k, blks, current_block) ==
    IF k > Len(lines) THEN
        IF current_block # <<>> THEN Append(blks, strip(join(current_block))) ELSE blks
    ELSE LET stripped == strip(lines[k]) IN
         IF stripped = <<>> THEN break_loop(lines, k + 1, blks, current_block)
         ELSE IF re_match(stripped) THEN
             IF current_block # <<>>
             THEN break_loop(lines, k + 1,
                             Append(blks, strip(join(current_block))), <<stripped>>)
             ELSE break_loop(lines, k + 1, blks, <<stripped>>)
         ELSE break_loop(lines, k + 1, blks, Append(current_block, stripped))

break_into_blocks(text) == break_loop(splitlines(text), 1, <<>>, <<>>)

\* ------------------------------------------------------------- values
\* the value of a call that returned v
Returned(v) == [exc |-> "none", val |-> v]
\* the value of a call that raised exception e
Raised(e) == [exc |-> e, val |-> <<>>]

\* f"BLOCK{i}"
BlockId(n) == <<"BLOCK", n>>

\* section_4_checklist
section_4_checklist ==
    << [id |-> "4.1", text |-> "processed only as per the Act"],
       [id |-> "4.2", text |-> "processed only for a lawful purpose"],
       [id |-> "4.3", text |-> "lawful purpose defined"],
       [id |-> "4.4", text |-> "processed only with consent"] >>

\* one entry of a "Checklist Evaluation" list, without and with "Justification"
Entry(item_id, status) ==
    ("Checklist Item ID" :> item_id) @@ ("Status" :> status)
EntryJ(item_id, status, justification) ==
    Entry(item_id, status) @@ ("Justification" :> justification)

\* a JSON array of entries, as json.loads returns it
JsonList(items) == [type |-> "list", items |-> items]
\* a JSON number
JsonNumber == [type |-> "number", items |-> <<>>]

\* ------------------------------------------------------------- dict
\* a dict keeps its keys in insertion order: a sequence of [key, value]
dict_index(d, key) ==
    IF \E k \in 1..Len(d) : d[k].key = key
    THEN CHOOSE k \in 1..Len(d) : d[k].key = key
    ELSE 0

\* mutant of dict_set: a new key goes to the front
dict_set_front(d, key, value) ==
    IF dict_index(d, key) # 0
    THEN [d EXCEPT ![dict_index(d, key)] = [key |-> key, value |-> value]]
    ELSE <<[key |-> key, value |-> value]>> \o d

\* d[key] = value
dict_set(d, key, value) ==
    IF dict_index(d, key) # 0
    THEN [d EXCEPT ![dict_index(d, key)] = [key |-> key, value |-> value]]
    ELSE Append(d, [key |-> key, value |-> value])

\* list(d.values())
dict_values(d) == [k \in 1..Len(d) |-> d[k].value]

\* ------------------------------------------------------------- aggregator
\* the summary record compile_summary creates for checklist item id
NewInfo(item_id) ==
    ("Checklist Item ID" :> item_id) @@ ("Final Status" :> "Missing")
        @@ ("Matched Blocks" :> <<>>)

\* first loop of compile_summary, from checklist item k on
RECURSIVE init_summary(_, _, _)
init_summary(cl, k, summary) ==
    IF k > Len(cl) THEN summary
    ELSE init_summary(cl, k + 1, dict_set(summary, cl[k].id, NewInfo(cl[k].id)))

\* the record appended to "Matched Blocks"
MatchRecord(block_id, status, justification) ==
    ("Block ID" :> block_id) @@ ("Status" :> status)
        @@ ("Justification" :> justification)

\* item.get("Justification", "")
get_justification(item) ==
    IF "Justification" \in DOMAIN item THEN item["Justification"] ELSE ""

\* summary[item_id]["Matched Blocks"].append(record), item_id a key of summary
append_match(summary, item_id, record) ==
    LET k == dict_index(summary, item_id) IN
    [summary EXCEPT ![k].value =
        [@ EXCEPT !["Matched Blocks"] = Append(@, record)]]

\* mutant of merge_items: every entry is recorded, whatever its status
RECURSIVE merge_items_all(_, _, _, _)
merge_items_all(summary, block_id, items, j) ==
    IF j > Len(items) THEN Returned(summary)
    ELSE LET item == items[j] IN
         IF "Checklist Item ID" \notin DOMAIN item THEN Raised("KeyError")
         ELSE IF "Status" \notin DOMAIN item THEN Raised("KeyError")
         ELSE LET item_id == item["Checklist Item ID"]
                  status == item["Status"]
              IN  IF dict_index(summary, item_id) = 0 THEN Raised("KeyError")
                  ELSE merge_items_all(
                           append_match(summary, item_id,
                               MatchRecord(block_id, status, get_justification(item))),
                           block_id, items, j + 1)

\* inner loop of compile_summary over one block's entries, from entry j on
RECURSIVE merge_items(_, _, _, _)
merge_items(summary, block_id, items, j) ==
    IF j > Len(items) THEN Returned(summary)
    ELSE LET item == items[j] IN
         IF "Checklist Item ID" \notin DOMAIN item THEN Raised("KeyError")
         ELSE IF "Status" \notin DOMAIN item THEN Raised("KeyError")
         ELSE LET item_id == item["Checklist Item ID"]
                  status == item["Status"]
              IN  IF status # "Missing" THEN
                      IF dict_index(summary, item_id) = 0 THEN Raised("KeyError")
                      ELSE merge_items(
                               append_match(summary, item_id,
                                   MatchRecord(block_id, status, get_justification(item))),
                               block_id, items, j + 1)
                  ELSE merge_items(summary, block_id, items, j + 1)

\* outer loop of compile_summary over the block results, from result b on
RECURSIVE merge_blocks(_, _, _)
merge_blocks(summary, block_results, b) ==
    IF b > Len(block_results) THEN Returned(summary)
    ELSE LET block == block_results[b] IN
         IF "block_id" \notin DOMAIN block THEN Raised("KeyError")
         ELSE IF "Checklist Evaluation" \notin DOMAIN block THEN Raised("KeyError")
         ELSE IF block["Checklist Evaluation"].type # "list" THEN Raised("TypeError")
         ELSE LET r == merge_items(summary, block["block_id"],
                                   block["Checklist Evaluation"].items, 1)
              IN  IF r.exc # "none" THEN r ELSE merge_blocks(r.val, block_results, b + 1)

\* mutant of final_status: a partial mention takes precedence
final_status_partial_first(statuses) ==
    IF \E k \in 1..Len(statuses) : statuses[k] = "Partially Mentioned"
    THEN "Partially Mentioned"
    ELSE IF \E k \in 1..Len(statuses) : statuses[k] = "Explicitly Mentioned"
    THEN "Explicitly Mentioned"
    ELSE "Missing"

\* the status precedence of the last loop of compile_summary
final_status(statuses) ==
    IF \E k \in 1..Len(statuses) : statuses[k] = "Explicitly Mentioned"
    THEN "Explicitly Mentioned"
    ELSE IF \E k \in 1..Len(statuses) : statuses[k] = "Partially Mentioned"
    THEN "Partially Mentioned"
    ELSE "Missing"

\* last loop of compile_summary
finalize(summary) ==
    [k \in 1..Len(summary) |->
        LET info == summary[k].value
            statuses == [m \in 1..Len(info["Matched Blocks"]) |->
                            info["Matched Blocks"][m]["Status"]]
        IN  [key |-> summary[k].key,
             value |-> [info EXCEPT !["Final Status"] = final_status(statuses)]]]

compile_summary(cl, block_results) ==
    LET r == merge_blocks(init_summary(cl, 1, <<>>), block_results, 1) IN
    IF r.exc # "none" THEN r ELSE Returned(dict_values(finalize(r.val)))


\* ------------------------------------------------------------- inputs
SeqsUpTo(S, n) == UNION {[1..m -> S] : m \in 0..n}

\* "\n".join(lines)
RECURSIVE join_lines(_)
join_lines(lines) ==
    IF lines = <<>> THEN <<>>
    ELSE IF Len(lines) = 1 THEN lines[1]
    ELSE lines[1] \o <<"\n">> \o join_lines(Tail(lines))

\* the lines documents are made of: empty, blank, lower-case prose (plain and
\* padded), a title, a padded title, a sentence that starts with a capital, a
\* single capital letter, a numbered clause, a number without the space, and
\* a title that ends in a full stop
LineSet ==
    { <<>>,
      <<" ">>,
      <<"a">>,
      <<" ", "b", " ">>,
      <<"A", "a">>,
      <<" ", "A", "a">>,
      <<"A", "a", " ", "b">>,
      <<"A">>,
      <<"1", ".", " ", "a">>,
      <<"1", ".", "a">>,
      <<"A", "a", ".">> }

Texts == {join_lines(ls) : ls \in SeqsUpTo(LineSet, MaxLines)}

\* the policy texts of a run: a title, prose and a blank line
RunLineSet == { <<"A", "a">>, <<"a">>, <<" ">> }
RunTexts == {join_lines(ls) : ls \in SeqsUpTo(RunLineSet, MaxRunLines)}

\* the entries an evaluation reports: the three statuses for a checklist item,
\* a partial mention without justification, a status outside the three, and
\* an id that is not in the checklist (mentioned, and missing)
EvalEntries ==
    { EntryJ("4.1", "Explicitly Mentioned", "states X"),
      EntryJ("4.1", "Partially Mentioned", "hints at X"),
      Entry("4.1", "Missing"),
      Entry("4.2", "Partially Mentioned"),
      EntryJ("4.1", "Not Mentioned", "n/a"),
      EntryJ("9.9", "Explicitly Mentioned", "states Y"),
      Entry("9.9", "Missing") }

Evaluations == SeqsUpTo(EvalEntries, MaxEntries)

\* a block result as the run loop hands it to compile_summary
BlockResult(n, items) ==
    ("block_id" :> BlockId(n)) @@ ("Checklist Evaluation" :> JsonList(items))

BlockResultSeqs ==
    { [n \in 1..Len(es) |-> BlockResult(n, es[n])] :
        es \in SeqsUpTo(Evaluations, MaxResults) }

\* checklists: none, the section 4 checklist, and two of its items in the
\* other order
Checklists ==
    { <<>>,
      section_4_checklist,
      <<section_4_checklist[2], section_4_checklist[1]>> }

\* ------------------------------------------------------------- segmenter run
InitSeg ==
    /\ policy_text \in Texts
    /\ blocks = <<>>
    /\ pc = "segment"
    /\ i = 0
    /\ gpt_responses = <<>>
    /\ all_block_results = <<>>
    /\ errors = <<>>
    /\ final_summary = <<>>
    /\ checklist = section_4_checklist
    /\ exception = "none"
    /\ AppIdle

\* blocks = break_into_blocks(policy_text)
Segment ==
    /\ pc = "segment"
    /\ blocks' = break_into_blocks(policy_text)
    /\ pc' = "segmented"
    /\ UNCHANGED <<policy_text, i, gpt_responses, all_block_results, errors,
                   final_summary, checklist, exception>>
    /\ UNCHANGED app_vars

NextSeg == Segment

SegSpec == InitSeg /\ [][NextSeg]_vars

\* ------------------------------------------------------------- aggregator run
InitAgg ==
    /\ policy_text = <<>>
    /\ blocks = <<>>
    /\ pc = "aggregate"
    /\ i = 0
    /\ gpt_responses = <<>>
    /\ all_block_results \in BlockResultSeqs
    /\ errors = <<>>
    /\ final_summary = <<>>
    /\ checklist \in Checklists
    /\ exception = "none"
    /\ AppIdle

\* final_summary = compile_summary(checklist, all_block_results) and the
\* rendering of the summary; an exception it raises ends the script run
CompileSummary ==
    /\ pc = "aggregate"
    /\ LET r == compile_summary(checklist, all_block_results) IN
       /\ exception' = r.exc
       /\ final_summary' = r.val
       /\ pc' = IF r.exc = "none" THEN "summarised" ELSE "crashed"
    /\ UNCHANGED <<policy_text, blocks, i, gpt_responses, all_block_results,
                   errors, checklist>>
    /\ UNCHANGED app_vars

NextAgg == CompileSummary

AggSpec == InitAgg /\ [][NextAgg]_vars


\* ------------------------------------------------------------- the run
\* a dict without keys
EmptyDict == [k \in {} |-> ""]

\* the text call_gpt returns, by what json.loads makes of it: not JSON at all,
\* a JSON array, or a JSON object with the given members
InvalidText == [syntax |-> "invalid", fields |-> EmptyDict]
ArrayText == [syntax |-> "array", fields |-> EmptyDict]
ObjectText(fields) == [syntax |-> "object", fields |-> fields]

\* the entries of the responses of a run: a mention of the first item, a
\* partial mention of the second without justification, a Missing entry, an
\* id that is not in the checklist, and an entry without "Status"
RunEntries ==
    { EntryJ("4.1", "Explicitly Mentioned", "states X"),
      Entry("4.2", "Partially Mentioned"),
      Entry("4.1", "Missing"),
      EntryJ("9.9", "Explicitly Mentioned", "states Y"),
      ("Checklist Item ID" :> "4.1") }

\* the responses of the evaluation service: text that is not JSON, an array,
\* an object without "Checklist Evaluation", one whose "Checklist Evaluation"
\* is a number, objects with a list of entries, and one that carries a
\* "block_id" of its own
GptResponses ==
    { InvalidText, ArrayText, ObjectText(EmptyDict),
      ObjectText("Checklist Evaluation" :> JsonNumber),
      ObjectText(("block_id" :> BlockId(0))
                   @@ ("Checklist Evaluation" :>
                         JsonList(<<EntryJ("4.1", "Explicitly Mentioned", "states X")>>))) }
      \cup { ObjectText("Checklist Evaluation" :> JsonList(items)) :
                items \in SeqsUpTo(RunEntries, MaxEntries) }

\* json.loads(gpt_response)
json_loads(gpt_response) ==
    IF gpt_response.syntax = "invalid" THEN Raised("JSONDecodeError")
    ELSE Returned([type |-> gpt_response.syntax, fields |-> gpt_response.fields])

\* mutant of tag_block: blocks are numbered from 0
tag_block_from_zero(parsed, n) == ("block_id" :> BlockId(n - 1)) @@ parsed

\* parsed["block_id"] = f"BLOCK{i}", parsed a dict
tag_block(parsed, n) == ("block_id" :> BlockId(n)) @@ parsed

\* the expander of one block result: the exception its loop raises, or "none"
render_block(parsed) ==
    IF "Checklist Evaluation" \notin DOMAIN parsed THEN "KeyError"
    ELSE IF parsed["Checklist Evaluation"].type # "list" THEN "TypeError"
    ELSE IF \E j \in 1..Len(parsed["Checklist Evaluation"].items) :
               LET item == parsed["Checklist Evaluation"].items[j] IN
               "Checklist Item ID" \notin DOMAIN item \/ "Status" \notin DOMAIN item
    THEN "KeyError"
    ELSE "none"

\* the try block of the loop for block n: the block results after it and the
\* exception the except clause caught, or "none"
try_block(gpt_response, n, block_results) ==
    LET loaded == json_loads(gpt_response) IN
    IF loaded.exc # "none" THEN [block_results |-> block_results, exc |-> loaded.exc]
    ELSE IF loaded.val.type # "object" THEN [block_results |-> block_results, exc |-> "TypeError"]
    ELSE LET parsed == tag_block(loaded.val.fields, n) IN
         [block_results |-> Append(block_results, parsed), exc |-> render_block(parsed)]

Init ==
    /\ policy_text \in RunTexts
    /\ blocks = <<>>
    /\ pc = "ready"
    /\ i = 0
    /\ gpt_responses = <<>>
    /\ all_block_results = <<>>
    /\ errors = <<>>
    /\ final_summary = <<>>
    /\ checklist = section_4_checklist
    /\ exception = "none"
    /\ AppIdle

\* the button is pressed and the policy text is not blank: the text is
\* segmented and the loop starts at block 1
RunComplianceCheck ==
    /\ pc = "ready"
    /\ strip(policy_text) # <<>>
    /\ blocks' = break_into_blocks(policy_text)
    /\ all_block_results' = <<>>
    /\ i' = 1
    /\ pc' = IF Len(break_into_blocks(policy_text)) = 0 THEN "aggregate" ELSE "loop"
    /\ UNCHANGED <<policy_text, gpt_responses, errors, final_summary, checklist,
                   exception>>
    /\ UNCHANGED app_vars

\* one iteration of the loop in which call_gpt raises: the call is outside
\* the try block, so the exception ends the script run
CallGptRaises ==
    /\ pc = "loop"
    /\ i <= Len(blocks)
    /\ pc' = "crashed"
    /\ exception' = "APIError"
    /\ UNCHANGED <<policy_text, blocks, i, gpt_responses, all_block_results,
                   errors, final_summary, checklist>>
    /\ UNCHANGED app_vars

\* one iteration of the loop in which call_gpt returns a response
EvalBlock ==
    /\ pc = "loop"
    /\ i <= Len(blocks)
    /\ \E gpt_response \in GptResponses :
          LET t == try_block(gpt_response, i, all_block_results) IN
          /\ gpt_responses' = Append(gpt_responses, gpt_response)
          /\ all_block_results' = t.block_results
          /\ errors' = IF t.exc # "none" THEN Append(errors, i) ELSE errors
    /\ i' = i + 1
    /\ pc' = IF i = Len(blocks) THEN "aggregate" ELSE "loop"
    /\ UNCHANGED <<policy_text, blocks, final_summary, checklist, exception>>
    /\ UNCHANGED app_vars

Next == RunComplianceCheck \/ CallGptRaises \/ EvalBlock \/ CompileSummary

Spec == Init /\ [][Next]_vars

\* ------------------------------------------------------------- the section tool
\* dpdpa_sections
dpdpa_sections ==
    << "Section 4 - Grounds for Processing Personal Data",
       "Section 5 - Notice",
       "Section 6 - Consent",
       "Section 7 - Certain Legitimate Uses",
       "Section 8 - General Obligations of Data Fiduciary",
       "Section 9 - Processing of Personal Data of Children",
       "Section 10 - Additional Obligations of Significant Data Fiduciaries" >>

\* the responses of analyze_section: text that is not JSON, and objects with
\* full points, half points, points that are no number, and no points at all
AppResponses ==
    { InvalidText,
      ObjectText("Compliance Points" :> "1.0"),
      ObjectText("Compliance Points" :> "0.5"),
      ObjectText("Compliance Points" :> "N/A"),
      ObjectText(EmptyDict) }

\* float(text) in hundredths for the point values the prompt names, -1 for a
\* text that is no number
to_float(text) ==
    CASE text = "1.0" -> 100
      [] text = "0.75" -> 75
      [] text = "0.5" -> 50
      [] text = "0.25" -> 25
      [] text = "0.0" -> 0
      [] OTHER -> -1

\* df['Compliance Points'].astype(float).sum() over rows k..: a row without
\* the column is NaN and is skipped
RECURSIVE sum_points(_, _)
sum_points(rows, k) ==
    IF k > Len(rows) THEN 0
    ELSE (IF "Compliance Points" \in DOMAIN rows[k]
          THEN to_float(rows[k]["Compliance Points"]) ELSE 0)
         + sum_points(rows, k + 1)

\* the score computation of the report over the parsed results
score(rows) ==
    IF \A k \in 1..Len(rows) : "Compliance Points" \notin DOMAIN rows[k]
    THEN Raised("KeyError")
    ELSE IF \E k \in 1..Len(rows) :
               /\ "Compliance Points" \in DOMAIN rows[k]
               /\ to_float(rows[k]["Compliance Points"]) < 0
    THEN Raised("ValueError")
    ELSE Returned([shown |-> TRUE, scored_points |-> sum_points(rows, 1),
                   total_possible |-> Len(rows)])

\* policy_text stands for privacy_policy_text
InitApp ==
    /\ policy_text \in {<<>>, <<"a">>}
    /\ dpdpa_chapter_text \in {<<>>, <<"a">>}
    /\ pc = "app_ready"
    /\ section = 0
    /\ results = <<>>
    /\ report = [shown |-> FALSE, scored_points |-> 0, total_possible |-> 0]
    /\ blocks = <<>>
    /\ i = 0
    /\ gpt_responses = <<>>
    /\ all_block_results = <<>>
    /\ errors = <<>>
    /\ final_summary = <<>>
    /\ checklist = <<>>
    /\ exception = "none"

\* the button is pressed: without both texts the run stops with an error
RunAnalysis ==
    /\ pc = "app_ready"
    /\ IF dpdpa_chapter_text = <<>> \/ policy_text = <<>>
       THEN pc' = "stopped" /\ UNCHANGED <<section, results>>
       ELSE pc' = "sections" /\ section' = 1 /\ results' = <<>>
    /\ UNCHANGED <<policy_text, blocks, i, gpt_responses, all_block_results, errors,
                   final_summary, checklist, exception, dpdpa_chapter_text, report>>

\* one iteration of the loop over dpdpa_sections in which analyze_section
\* raises: the try block catches it and the error is shown
AnalyzeSectionRaises ==
    /\ pc = "sections"
    /\ section <= Len(dpdpa_sections)
    /\ errors' = Append(errors, section)
    /\ section' = section + 1
    /\ pc' = IF section = Len(dpdpa_sections) THEN "report" ELSE "sections"
    /\ UNCHANGED <<policy_text, blocks, i, gpt_responses, all_block_results,
                   final_summary, checklist, exception, dpdpa_chapter_text, results,
                   report>>

\* one iteration of the loop in which analyze_section returns a response
AnalyzeSection ==
    /\ pc = "sections"
    /\ section <= Len(dpdpa_sections)
    /\ \E result_json \in AppResponses :
          LET loaded == json_loads(result_json) IN
          IF loaded.exc # "none"
          THEN errors' = Append(errors, section) /\ UNCHANGED results
          ELSE results' = Append(results, loaded.val.fields) /\ UNCHANGED errors
    /\ section' = section + 1
    /\ pc' = IF section = Len(dpdpa_sections) THEN "report" ELSE "sections"
    /\ UNCHANGED <<policy_text, blocks, i, gpt_responses, all_block_results,
                   final_summary, checklist, exception, dpdpa_chapter_text, report>>

\* the table and the score, shown when some section was parsed; an exception
\* of the score computation ends the script run
ShowReport ==
    /\ pc = "report"
    /\ IF results = <<>>
       THEN pc' = "app_done" /\ UNCHANGED <<report, exception>>
       ELSE LET r == score(results) IN
            IF r.exc # "none"
            THEN pc' = "crashed" /\ exception' = r.exc /\ UNCHANGED report
            ELSE pc' = "app_done" /\ report' = r.val /\ UNCHANGED exception
    /\ UNCHANGED <<policy_text, blocks, i, gpt_responses, all_block_results, errors,
                   final_summary, checklist, dpdpa_chapter_text, section, results>>

NextApp == RunAnalysis \/ AnalyzeSectionRaises \/ AnalyzeSection \/ ShowReport

AppSpec == InitApp /\ [][NextApp]_vars

\* ============================================================= segmenter claims
\* the stripped, non-blank lines of a text, in document order
StrippedNonBlank(text) ==
    LET lines == splitlines(text)
        stripped == [k \in 1..Len(lines) |-> strip(lines[k])]
    IN  SelectSeq(stripped, LAMBDA l : l # <<>>)

\* "a line that consists only of capitalized words/spaces": letters and spaces
\* only, at least one word, every word starting with a capital letter
CapitalizedWordsOnly(s) ==
    /\ s # <<>>
    /\ \A k \in 1..Len(s) : IsLetter(s[k]) \/ s[k] \in SpaceChars
    /\ \A k \in 1..Len(s) :
          (IsLetter(s[k]) /\ (k = 1 \/ s[k - 1] \in SpaceChars)) => IsUpper(s[k])

\* "a line beginning with digits, a period and a space"
NumericMarker(s) ==
    \E n \in 1..Len(s) :
        /\ \A k \in 1..n : IsDigit(s[k])
        /\ Len(s) >= n + 2
        /\ s[n + 1] = "."
        /\ s[n + 2] \in SpaceChars

\* heading-like, in the words of claim C7
HeadingLikeAsClaimed(s) == CapitalizedWordsOnly(s) \/ NumericMarker(s)

\* C7 as stated: a text with no heading-like line (a line of capitalized words
\* and spaces only, or a line beginning with digits, a period and a space)
\* yields exactly one block, the stripped non-blank lines joined by one space.
C7_OneBlockAsClaimed ==
    (pc = "segmented" /\ \A k \in 1..Len(StrippedNonBlank(policy_text)) :
                             ~HeadingLikeAsClaimed(StrippedNonBlank(policy_text)[k]))
        => (Len(blocks) = 1 /\ blocks[1] = join(StrippedNonBlank(policy_text)))

\* C7 amended: a text with at least one non-blank line, none of whose stripped
\* lines matches the pattern of break_into_blocks (a capital letter followed by
\* one or more letters or whitespace characters and nothing else, or digits, a
\* period, a whitespace character and anything), yields exactly one block, the
\* stripped non-blank lines joined by one space.
C7_OneBlock ==
    (/\ pc = "segmented"
     /\ StrippedNonBlank(policy_text) # <<>>
     /\ \A k \in 1..Len(StrippedNonBlank(policy_text)) :
            ~re_match(StrippedNonBlank(policy_text)[k]))
        => (Len(blocks) = 1 /\ blocks[1] = join(StrippedNonBlank(policy_text)))

\* a text of a padded line, a blank line and a plain line, none a heading, has
\* been segmented
C7_Witness ==
    /\ pc = "segmented"
    /\ splitlines(policy_text) = << <<" ", "b", " ">>, <<" ">>, <<"a">> >>
    /\ blocks = << <<"b", " ", "a">> >>

\* the positions, among the non-blank lines, where a block starts
HeadStarts(nb) == {k \in 1..Len(nb) : k = 1 \/ re_match(nb[k])}

\* the n-th smallest block start
NthStart(nb, n) ==
    CHOOSE k \in HeadStarts(nb) : Cardinality({m \in HeadStarts(nb) : m < k}) = n - 1

\* the last line of the block that starts at line k
SegmentEnd(nb, k) ==
    IF \E m \in HeadStarts(nb) : m > k
    THEN (CHOOSE m \in HeadStarts(nb) :
             m > k /\ \A m2 \in HeadStarts(nb) : m2 > k => m <= m2) - 1
    ELSE Len(nb)

\* C8: the blocks partition the non-blank lines in document order: there is one
\* block per heading-start line, plus one when the first non-blank line is no
\* heading; the n-th block is not empty and is the join of the lines from the
\* n-th block start up to the line before the next heading-start line, so a
\* heading-start line is the first line of its block and of no other position.
C8_Partition ==
    pc = "segmented" =>
        LET nb == StrippedNonBlank(policy_text) IN
        /\ Len(blocks) = Cardinality(HeadStarts(nb))
        /\ Len(blocks) = Cardinality({k \in 1..Len(nb) : re_match(nb[k])})
                           + (IF nb # <<>> /\ ~re_match(nb[1]) THEN 1 ELSE 0)
        /\ \A n \in 1..Len(blocks) :
              /\ blocks[n] # <<>>
              /\ blocks[n] = join(SubSeq(nb, NthStart(nb, n), SegmentEnd(nb, NthStart(nb, n))))
        /\ join(blocks) = join(nb)

\* prose, then a heading followed by prose: two blocks, the second of two lines
C8_Witness ==
    /\ pc = "segmented"
    /\ StrippedNonBlank(policy_text) = << <<"a">>, <<"A", "a">>, <<"b">> >>
    /\ blocks = << <<"a">>, <<"A", "a", " ", "b">> >>

\* ============================================================= aggregator claims
\* the ids of the checklist
ChecklistIds == {checklist[k].id : k \in 1..Len(checklist)}

\* the block results without the entries that satisfy Drop
WithoutEntries(block_results, Drop(_)) ==
    [b \in 1..Len(block_results) |->
        [block_results[b] EXCEPT !["Checklist Evaluation"] =
            JsonList(SelectSeq(@.items, LAMBDA e : ~Drop(e)))]]

UnknownId(e) == e["Checklist Item ID"] \notin ChecklistIds
ReportedMissing(e) == e["Status"] = "Missing"

\* the entries the block results report, over all blocks
ReportedEntries ==
    UNION { {all_block_results[b]["Checklist Evaluation"].items[j] :
                j \in 1..Len(all_block_results[b]["Checklist Evaluation"].items)} :
            b \in 1..Len(all_block_results) }

\* the statuses the blocks report for an item
ReportedStatuses(item_id) ==
    {e["Status"] : e \in {x \in ReportedEntries : x["Checklist Item ID"] = item_id}}

\* C3 as stated: an entry whose id is not in the checklist is ignored:
\* aggregation completes without error and the summaries are those of the
\* block results without the unknown entries.
C3_UnknownIdIgnored ==
    pc \in {"summarised", "crashed"} =>
        /\ exception = "none"
        /\ final_summary =
             compile_summary(checklist, WithoutEntries(all_block_results, UnknownId)).val

C5_Precedence ==
    pc = "summarised" =>
        \A k \in 1..Len(checklist) :
            \E n \in 1..Len(final_summary) :
                /\ final_summary[n]["Checklist Item ID"] = checklist[k].id
                /\ final_summary[n]["Final Status"] =
                     IF "Explicitly Mentioned" \in ReportedStatuses(checklist[k].id)
                     THEN "Explicitly Mentioned"
                     ELSE IF "Partially Mentioned" \in ReportedStatuses(checklist[k].id)
                     THEN "Partially Mentioned"
                     ELSE "Missing"

\* a partial mention of an item in the first block and an explicit one in the
\* second
C5_Witness ==
    /\ pc = "summarised"
    /\ checklist = section_4_checklist
    /\ Len(all_block_results) = 2
    /\ all_block_results[1]["Checklist Evaluation"].items
          = <<EntryJ("4.1", "Partially Mentioned", "hints at X")>>
    /\ all_block_results[2]["Checklist Evaluation"].items
          = <<EntryJ("4.1", "Explicitly Mentioned", "states X")>>
    /\ final_summary[1]["Final Status"] = "Explicitly Mentioned"

\* C6: no record of any "Matched Blocks" list has Status Missing, and the
\* summaries are those of the block results without the entries reported
\* Missing.
C6_NoMissingMatched ==
    pc = "summarised" =>
        /\ \A k \in 1..Len(final_summary) :
              \A m \in 1..Len(final_summary[k]["Matched Blocks"]) :
                  final_summary[k]["Matched Blocks"][m]["Status"] # "Missing"
        /\ final_summary =
             compile_summary(checklist,
                             WithoutEntries(all_block_results, ReportedMissing)).val

\* one block reports an item Missing and another block mentions it
C6_Witness ==
    /\ pc = "summarised"
    /\ checklist = section_4_checklist
    /\ Len(all_block_results) = 2
    /\ all_block_results[1]["Checklist Evaluation"].items = <<Entry("4.1", "Missing")>>
    /\ all_block_results[2]["Checklist Evaluation"].items
          = <<EntryJ("4.1", "Partially Mentioned", "hints at X")>>
    /\ Len(final_summary[1]["Matched Blocks"]) = 1

\* C10 as stated: an item's Final Status is Missing exactly when its "Matched
\* Blocks" list is empty, whatever Status strings the evaluator returned.
C10_MissingIffNoMatch ==
    pc = "summarised" =>
        \A k \in 1..Len(final_summary) :
            (final_summary[k]["Final Status"] = "Missing")
                <=> (final_summary[k]["Matched Blocks"] = <<>>)


\* ============================================================= run claims
\* a response that is valid JSON matching the schema: an object with a
\* "Checklist Evaluation" list of entries that have an id and a status
WellFormedResponse(r) ==
    /\ r.syntax = "object"
    /\ "Checklist Evaluation" \in DOMAIN r.fields
    /\ r.fields["Checklist Evaluation"].type = "list"
    /\ \A j \in 1..Len(r.fields["Checklist Evaluation"].items) :
          /\ "Checklist Item ID" \in DOMAIN r.fields["Checklist Evaluation"].items[j]
          /\ "Status" \in DOMAIN r.fields["Checklist Evaluation"].items[j]

\* C1 as stated: a block whose response is not valid JSON matching the schema
\* is reported as an error and is not among the block results handed to
\* compile_summary, the later blocks are still evaluated and the final summary
\* is still produced (no exception of the aggregation ends the run).
C1_MalformedBlockIsolated ==
    \A b \in 1..Len(gpt_responses) :
        ~WellFormedResponse(gpt_responses[b]) =>
            /\ \E e \in 1..Len(errors) : errors[e] = b
            /\ \A n \in 1..Len(all_block_results) :
                  all_block_results[n]["block_id"] # BlockId(b)
            /\ ~(pc = "crashed" /\ exception \in {"KeyError", "TypeError"})

\* C2 as stated: an error of the call to the evaluation service for one block
\* never ends the run.
C2_CallErrorNeverAborts ==
    ~(pc = "crashed" /\ exception = "APIError")

\* the section tool's part of C2: an exception of analyze_section is shown as
\* an error of its section, every section is still processed, and the report
\* is made of the rows of the sections that were parsed
App_CallErrorIsLocal ==
    /\ ~(pc = "crashed" /\ exception = "APIError")
    /\ pc \in {"report", "app_done", "crashed"} =>
          /\ section = Len(dpdpa_sections) + 1
          /\ Len(errors) + Len(results) = Len(dpdpa_sections)
    /\ (pc = "app_done" /\ results # <<>>) =>
          (report.shown /\ report.total_possible = Len(results))

\* the records block b contributes to the "Matched Blocks" of item item_id
MatchesOfBlock(b, item_id) ==
    IF WellFormedResponse(gpt_responses[b])
    THEN LET found == SelectSeq(gpt_responses[b].fields["Checklist Evaluation"].items,
                                LAMBDA e : e["Checklist Item ID"] = item_id
                                           /\ e["Status"] # "Missing")
         IN  [m \in 1..Len(found) |->
                 MatchRecord(BlockId(b), found[m]["Status"], get_justification(found[m]))]
    ELSE <<>>

\* the records of blocks 1..b for item item_id, in block order
RECURSIVE MatchesUpTo(_, _)
MatchesUpTo(b, item_id) ==
    IF b = 0 THEN <<>> ELSE MatchesUpTo(b - 1, item_id) \o MatchesOfBlock(b, item_id)

\* C9: every record of an item's "Matched Blocks" carries the id BLOCK<b> of
\* the block, by its position b in the segmenter's output, whose evaluation
\* reported it, also after failed blocks, and the records of an item are in
\* block order.
C9_BlockIdentity ==
    pc = "summarised" =>
        \A k \in 1..Len(final_summary) :
            LET matched == final_summary[k]["Matched Blocks"] IN
            /\ matched = MatchesUpTo(Len(blocks), final_summary[k]["Checklist Item ID"])
            /\ \A m \in 1..Len(matched) :
                  /\ matched[m]["Block ID"][1] = "BLOCK"
                  /\ matched[m]["Block ID"][2] \in 1..Len(blocks)
            /\ \A m1, m2 \in 1..Len(matched) :
                  m1 < m2 => matched[m1]["Block ID"][2] <= matched[m2]["Block ID"][2]

\* the first of two blocks failed to parse and the second mentions an item
C9_Witness ==
    /\ pc = "summarised"
    /\ Len(blocks) = 2
    /\ errors = <<1>>
    /\ Len(final_summary[1]["Matched Blocks"]) = 1
    /\ final_summary[1]["Matched Blocks"][1]["Block ID"] = BlockId(2)

====
